---- MODULE Spec2Model ----
(***************************************************************************)
(* Model of core/queue.py, the two task queues of the notification         *)
(* dispatcher, and of the notifier they serve: AcademicNotifier.notify     *)
(* (core/notification_system.py) guarded by the circuit breaker that        *)
(* core/decorators.py adds to the class.                                    *)
(*                                                                         *)
(*   AsyncQueue       an asyncio.PriorityQueue of (-priority, task_id)      *)
(*                    served by max_workers cooperatively scheduled worker  *)
(*                    coroutines (one event loop, atomic between awaits).   *)
(*   ThreadPoolQueue  a FIFO queue.Queue of task ids served by max_workers  *)
(*                    daemon threads, the registry guarded by self.lock.    *)
(*                                                                         *)
(* One queue object is modelled at a time; `design` says which class it is. *)
(* Worker loops are interchangeable (worker_id is only logged), so the live *)
(* loops are kept as a bag of their local states.                           *)
(***************************************************************************)
EXTENDS Integers, Sequences, FiniteSets, Bags, TLC

VARIABLES
    design,     \* "async" (AsyncQueue) or "thread" (ThreadPoolQueue)
    running,    \* self.running
    tasks,      \* self.tasks: task_id -> QueuedTask
    queue,      \* self.queue: async, <<-priority, task_id>> items; thread, task ids
    workers,    \* the live worker loops: a bag of [pc, task, cancel]
    stopPc,     \* position of a stop() call: "idle", or "join" (awaiting workers)
    execs,      \* task_id -> number of times task.func was invoked
    seq,        \* task_id -> position of the task in the order of enqueue calls
    clock,      \* datetime.now(), in whole seconds
    circuit_breaker,  \* the notifier's _circuit_breaker_failures / _last_failure
    observed,   \* the breaker method a client called last, and what it returned
    calls,      \* caller -> position and locals of its notify call
    archive     \* the Notification rows committed: by archive_notification, by the route

\* the fields of the queue object, and the notifier with its surroundings
queues == <<design, running, tasks, queue, workers, stopPc, execs, seq>>
notifier == <<clock, circuit_breaker, observed, calls, archive>>
vars == <<queues, notifier>>

\* ---------------------------------------------------------------- bounds
MaxTasks == 2          \* enqueue calls per behaviour
MaxLive == 6           \* worker loops alive at once (threads outlive stop())
MaxDays == 1           \* whole days the clock runs past its start
MaxRecorded == 6       \* failures a client records on the breaker by hand
MaxCalls == 2          \* notify calls a client makes

\* ------------------------------------------------------ program constants
DefaultMaxRetries == 3 \* QueuedTask.max_retries and enqueue's default
MaxPriority == 2       \* priority: 0 = basse, 1 = normale, 2 = haute
AsyncMaxWorkers == 5   \* async_queue = AsyncQueue(max_workers=5)
ThreadMaxWorkers == 3  \* thread_pool_queue = ThreadPoolQueue(max_workers=3)
MaxFailures == 5       \* @add_circuit_breaker(max_failures=5, timeout=60)
Timeout == 60          \* @add_circuit_breaker(max_failures=5, timeout=60)
Retries == 3           \* @retry_on_failure(retries=3) on send_email/push/sms
SecondsPerDay == 86400 \* timedelta.seconds leaves the days out

\* self.max_workers
max_workers == IF design = "async" THEN AsyncMaxWorkers ELSE ThreadMaxWorkers
\* the max_retries a caller passes to enqueue
RetryArgs == 0..DefaultMaxRetries

Ids == 1..MaxTasks     \* uuid4 strings, ordered as Python orders the strings
Priorities == 0..MaxPriority
NoTask == 0
None == "None"

\* ------------------------------------------------------------ TaskStatus
PENDING == "pending"
RUNNING == "running"
COMPLETED == "completed"
FAILED == "failed"
RETRYING == "retrying"
TaskStatus == {PENDING, RUNNING, COMPLETED, FAILED, RETRYING}

\* A fresh QueuedTask as the dataclass builds it.
QueuedTask(p, n) ==
    [status |-> PENDING, started_at |-> FALSE, completed_at |-> FALSE,
     result |-> None, error |-> None, retry_count |-> 0,
     max_retries |-> n, priority |-> p]

\* ------------------------------------------------------------- helpers
Worker(pc, t, c) == [pc |-> pc, task |-> t, cancel |-> c]
One(w) == SetToBag({w})
Live == BagToSet(workers)
NLive == BagCardinality(workers)
\* the bag with one copy of worker w replaced by w2
Moved(w, w2) == (workers (-) One(w)) (+) One(w2)
\* the bag with one copy of worker w gone (its loop returned or was cancelled)
Exited(w) == workers (-) One(w)

RECURSIVE Spawn(_, _)
Spawn(n, w) == IF n = 0 THEN EmptyBag ELSE One(w) (+) Spawn(n - 1, w)

RECURSIVE CancelAll(_)
CancelAll(S) ==
    IF S = {} THEN EmptyBag
    ELSE LET w == CHOOSE x \in S : TRUE
             c == CopiesIn(w, workers)
         IN  Spawn(c, [w EXCEPT !.cancel = TRUE]) (+) CancelAll(S \ {w})

\* mutant of ItemLess: equal keys ordered by descending task id
ItemLessIdDescending(a, b) == a[1] < b[1] \/ (a[1] = b[1] /\ a[2] > b[2])

\* tuple order of the PriorityQueue items (-priority, task_id)
ItemLess(a, b) == a[1] < b[1] \/ (a[1] = b[1] /\ a[2] < b[2])
\* The heap of the PriorityQueue is kept as the sequence of its items in
\* ascending tuple order: put inserts the item before the first greater one,
\* get takes the head.
PQPut(q, item) ==
    LET k == Cardinality({i \in 1..Len(q) : ~ItemLess(item, q[i])})
    IN  SubSeq(q, 1, k) \o <<item>> \o SubSeq(q, k + 1, Len(q))

\* mutant of EnqueueKey: the priority is not inverted
EnqueueKeyPlain(p) == p

\* the key under which enqueue puts a task: priority inverted for PriorityQueue
EnqueueKey(p) == -p
\* mutant of RetryKey: a failed task is put back under the default priority
RetryKeyDefault == EnqueueKey(0)

\* the key under which a failed task is put back
RetryKey == -1

\* mutant of RetryAgain: one more attempt is allowed
RetryAgainInclusive(t) == t.retry_count <= t.max_retries

\* retry decision taken after retry_count was incremented
RetryAgain(t) == t.retry_count < t.max_retries

\* ------------------------------------------------------- circuit breaker
\* _circuit_breaker_last_failure: None, or the datetime of a failure
Never == <<>>
At(t) == <<t>>

\* the breaker as the decorated __init__ leaves it
NewBreaker == [failures |-> 0, last_failure |-> Never]

\* (datetime.now() - last_failure).seconds: the seconds component of the
\* timedelta, 0..86399, the days component not counted
Seconds(d) == d % SecondsPerDay

\* mutant of IsOpen: the breaker never opens
IsOpenNever(b) == FALSE

\* mutant of IsOpen: the breaker opens one failure later
IsOpenAbove(b) ==
    /\ b.failures > MaxFailures
    /\ b.last_failure # Never
    /\ Seconds(clock - b.last_failure[1]) < Timeout

\* what is_circuit_open() returns for breaker state b
IsOpen(b) ==
    /\ b.failures >= MaxFailures
    /\ b.last_failure # Never
    /\ Seconds(clock - b.last_failure[1]) < Timeout

\* mutant of Checked: every check zeroes the failures
CheckedResets(b) == [b EXCEPT !.failures = 0]

\* the breaker state is_circuit_open() leaves: failures zeroed when the
\* threshold was reached and the cooldown is found over
Checked(b) ==
    IF b.failures >= MaxFailures /\ b.last_failure # Never /\ ~IsOpen(b)
    THEN [b EXCEPT !.failures = 0]
    ELSE b

\* mutant of Failed: the time of the failure is not recorded
FailedUntimed(b) == [b EXCEPT !.failures = @ + 1]

\* the breaker state record_failure() leaves
Failed(b) == [failures |-> b.failures + 1, last_failure |-> At(clock)]

\* mutant of Succeeded: the time of the last failure is kept
SucceededKeepsTime(b) == [b EXCEPT !.failures = 0]

\* the breaker state record_success() leaves
Succeeded(b) == [failures |-> 0, last_failure |-> Never]

\* ------------------------------------------------------------- notifier
\* who calls notify: a client of the notifier (a test, a request handler),
\* written NoTask, or the work function of a queued task
Callers == {NoTask} \cup Ids

EmergencyType == {"WEATHER", "SECURITY", "HEALTH", "INFRASTRUCTURE", "ACADEMIC"}
CRITICAL == "CRITICAL"

\* mutant of get_priority: the default priority is MEDIUM
get_priority_default_medium(et) ==
    IF et \in {"SECURITY", "HEALTH"} THEN CRITICAL
    ELSE IF et = "WEATHER" THEN "HIGH"
    ELSE "MEDIUM"

get_priority(et) ==
    IF et \in {"SECURITY", "HEALTH"} THEN CRITICAL
    ELSE IF et = "WEATHER" THEN "HIGH"
    ELSE IF et = "INFRASTRUCTURE" THEN "MEDIUM"
    ELSE "LOW"

\* user['phone'] as User.to_dict() gives it: None, or the string stored
Phones == {None, "", "+33612345678"}
\* EmergencyType.X.value (accents left out)
Value(et) ==
    CASE et = "WEATHER" -> "meteo"
      [] et = "SECURITY" -> "securite"
      [] et = "HEALTH" -> "sante"
      [] et = "INFRASTRUCTURE" -> "infrastructure"
      [] et = "ACADEMIC" -> "academique"

\* the emergency_type strings a caller passes to send_notification_sync: the
\* values of the enumeration, and strings that are none of them
Tags == {Value(et) : et \in EmergencyType} \cup {"", "autre", "SECURITY", "Sante"}

\* what a caller may pass to get_priority: a member of the enumeration, or
\* something else (None, a string; a Python string never equals a member,
\* which the model writes by its name, so the names are not among them)
Arguments == EmergencyType \cup (Tags \ EmergencyType) \cup {None}

\* send_notification_sync: the member whose value is the string, ACADEMIC if
\* there is none
Resolve(tag) ==
    IF \E et \in EmergencyType : Value(et) = tag
    THEN CHOOSE et \in EmergencyType : Value(et) = tag
    ELSE "ACADEMIC"

\* str() of the ValueError of send_notification_sync
UserNotFound == "Utilisateur non trouve"

\* the user dictionaries that matter to notify
Users == [prefers_email : BOOLEAN, phone : Phones]
\* 'phone' in user and user['phone']
HasPhone(user) == user.phone # None /\ user.phone # ""

\* mutant of Channels: a non-critical notification goes out by push
ChannelsPushOnly(priority, user) ==
    IF priority = CRITICAL
    THEN <<"Email", "Push">> \o (IF HasPhone(user) THEN <<"SMS">> ELSE <<>>)
    ELSE <<"Push">>

\* the channels notify sends on, in order: all of them for CRITICAL
\* (send_all_channels), else the one the user prefers
Channels(priority, user) ==
    IF priority = CRITICAL
    THEN <<"Email", "Push">> \o (IF HasPhone(user) THEN <<"SMS">> ELSE <<>>)
    ELSE IF user.prefers_email THEN <<"Email">> ELSE <<"Push">>

\* the dictionary a send_* method returns
SendResult(ch) == [status |-> "success", channel |-> ch]
\* str() of the exception a send_* method raises
SendError(ch) == "Echec d'envoi " \o ch
SendErrors == {SendError(ch) : ch \in {"Email", "Push", "SMS"}}
CircuitOpenMessage == "Circuit ouvert : trop d'echecs recents"
ArchiveError == "archive"

\* mutant of Join: the strings are concatenated without a separator
RECURSIVE JoinPlain(_)
JoinPlain(s) == IF Len(s) = 0 THEN "" ELSE s[1] \o JoinPlain(Tail(s))

\* ','.join(s)
RECURSIVE Join(_)
Join(s) ==
    IF Len(s) = 0 THEN ""
    ELSE IF Len(s) = 1 THEN s[1]
    ELSE s[1] \o "," \o Join(Tail(s))

\* [r['channel'] for r in results if r.get('status') == 'success']
RECURSIVE SuccessChannels(_)
SuccessChannels(results) ==
    IF Len(results) = 0 THEN <<>>
    ELSE (IF results[1].status = "success" THEN <<results[1].channel>> ELSE <<>>)
            \o SuccessChannels(Tail(results))

\* the row archive_notification commits for the call with locals k
Notification(k) ==
    [priority |-> k.priority, channels |-> Join(SuccessChannels(k.results))]

\* ', '.join(s), as the route joins the channels
RECURSIVE JoinSpaced(_)
JoinSpaced(s) ==
    IF Len(s) = 0 THEN ""
    ELSE IF Len(s) = 1 THEN s[1]
    ELSE s[1] \o ", " \o JoinSpaced(Tail(s))

\* [r['channel'] for r in notification_data['results'] if r]
RECURSIVE ResultChannels(_)
ResultChannels(results) ==
    IF Len(results) = 0 THEN <<>>
    ELSE <<results[1].channel>> \o ResultChannels(Tail(results))

\* the row the route /send-notification commits after the call with locals k
RouteNotification(k) ==
    [priority |-> k.priority, channels |-> JoinSpaced(ResultChannels(k.results))]

\* what a client saw of its last call of a breaker method: the method, the
\* breaker state it was called in, the value it returned
Observation(op, b, value) == [op |-> op, before |-> b, value |-> value]
\* no breaker method was called since the clock was last read
NoObservation == Observation(None, NewBreaker, None)

\* a caller outside notify. outcome and error tell how its last call ended,
\* results and sent what that call delivered, base the number of rows archived
\* when it began, made the number of calls the caller made; loaded is the
\* failure count a thread inside record_failure has read and not yet written
\* back.
IdleCall ==
    [pc |-> "idle", outcome |-> None, error |-> None, priority |-> None,
     plan |-> <<>>, attempt |-> 0, results |-> <<>>, sent |-> 0, base |-> 0,
     made |-> 0, loaded |-> 0]

\* ---------------------------------------------------------------- Init
\* a queue object as its constructor leaves it
NewQueue ==
    /\ design \in {"async", "thread"}
    /\ running = FALSE
    /\ tasks = <<>>
    /\ queue = <<>>
    /\ workers = EmptyBag
    /\ stopPc = "idle"
    /\ execs = <<>>
    /\ seq = <<>>

\* a notifier whose breaker recorded k failures in the second it was built
\* (k = 0: as AcademicNotifier() leaves it), nobody calling it, no row archived
NewNotifier(k) ==
    /\ clock = 0
    /\ circuit_breaker = [failures |-> k,
                          last_failure |-> IF k = 0 THEN Never ELSE At(0)]
    /\ observed = NoObservation
    /\ calls = [c \in Callers |-> IdleCall]
    /\ archive = <<>>

Init == NewQueue /\ NewNotifier(0)

\* --------------------------------------------------------- start / stop
\* what start() spawns: nothing when already running, else max_workers loops
\* (asyncio tasks not yet run, or threads about to test `while self.running`)
StartWorkers ==
    IF running THEN EmptyBag
    ELSE Spawn(max_workers,
               Worker(IF design = "async" THEN "new" ELSE "check", NoTask, FALSE))

\* AsyncQueue.start / ThreadPoolQueue.start. start() and stop() are called by
\* one controller, one call after the other, so no start() runs while an
\* AsyncQueue.stop() is still awaiting its workers.
Start ==
    /\ stopPc = "idle"
    /\ running \/ NLive + max_workers <= MaxLive
    /\ workers' = workers (+) StartWorkers
    /\ running' = TRUE
    /\ UNCHANGED <<design, tasks, queue, stopPc, execs, seq>>
    /\ UNCHANGED notifier

\* ThreadPoolQueue.stop: clears the flag and shuts down the executor, to which
\* nothing was ever submitted; the worker threads are not joined.
TStop ==
    /\ design = "thread"
    /\ running' = FALSE
    /\ UNCHANGED <<design, tasks, queue, workers, stopPc, execs, seq>>
    /\ UNCHANGED notifier

\* AsyncQueue.stop up to its first await: clears the flag and cancels every
\* worker of self.workers (all live loops belong to it: earlier batches were
\* awaited by the stop() that preceded this start()).
AStopBegin ==
    /\ design = "async"
    /\ stopPc = "idle"
    /\ IF running
       THEN /\ running' = FALSE
            /\ workers' = CancelAll(Live)
            /\ stopPc' = "join"
       ELSE UNCHANGED <<running, workers, stopPc>>
    /\ UNCHANGED <<design, tasks, queue, execs, seq>>
    /\ UNCHANGED notifier

\* AsyncQueue.stop returns once every awaited worker has finished.
AStopEnd ==
    /\ design = "async"
    /\ stopPc = "join"
    /\ workers = EmptyBag
    /\ stopPc' = "idle"
    /\ UNCHANGED <<design, running, tasks, queue, workers, execs, seq>>
    /\ UNCHANGED notifier

\* --------------------------------------------------------------- enqueue
\* ids uuid4 has not produced yet (an id cleared from the registry does not
\* come again)
FreshIds == Ids \ DOMAIN execs

\* mutant of EnqueuePut: nothing is put on the ready queue
EnqueuePutNothing(q, id, p) == q

\* the ready queue after enqueue put the new task
EnqueuePut(q, id, p) ==
    IF design = "async" THEN PQPut(q, <<EnqueueKey(p), id>>) ELSE Append(q, id)

\* AsyncQueue.enqueue / ThreadPoolQueue.enqueue
Enqueue(id, p, n) ==
    /\ id \in FreshIds
    /\ tasks' = tasks @@ (id :> QueuedTask(p, n))
    /\ queue' = EnqueuePut(queue, id, p)
    /\ execs' = execs @@ (id :> 0)
    /\ seq' = seq @@ (id :> Cardinality(DOMAIN seq) + 1)
    /\ UNCHANGED <<design, running, workers, stopPc>>
    /\ UNCHANGED notifier

\* an enqueue call with its priority drawn from P and its max_retries from R
EnqueueAny(P, R) == \E id \in Ids, p \in P, n \in R : Enqueue(id, p, n)

\* ------------------------------------------------- steps shared by workers
\* mutant of Started: the start time is not recorded
StartedUnstamped(t) == [t EXCEPT !.status = RUNNING]

\* the task record once a worker took it: status RUNNING, started_at = now
Started(t) == [t EXCEPT !.status = RUNNING, !.started_at = TRUE]

\* mutant of FailStatus: a task to retry is reset to PENDING
FailStatusPending(t) == IF RetryAgain(t) THEN PENDING ELSE FAILED

\* mutant of FailStatus: a failure is final whatever budget remains
FailStatusAlwaysFailed(t) == FAILED

\* status a failed task gets, retry_count already incremented
FailStatus(t) == IF RetryAgain(t) THEN RETRYING ELSE FAILED

\* mutant of RetryPut: the failed task is put back twice
RetryPutTwice(q, id, t) ==
    IF RetryAgain(t)
    THEN IF design = "async" THEN PQPut(PQPut(q, <<RetryKey, id>>), <<RetryKey, id>>)
         ELSE Append(Append(q, id), id)
    ELSE q

\* mutant of RetryPut: the failed task is not put back
RetryPutDropped(q, id, t) == q

\* the ready queue after a failure of task id (record t, retry_count incremented)
RetryPut(q, id, t) ==
    IF RetryAgain(t)
    THEN IF design = "async" THEN PQPut(q, <<RetryKey, id>>) ELSE Append(q, id)
    ELSE q

\* ------------------------------------------------- AsyncQueue._worker
\* `while self.running` at the top of the loop, then the wait for an item
ALoop(w) == IF running THEN Moved(w, Worker("wait", NoTask, FALSE)) ELSE Exited(w)

\* worker.cancel() took effect: CancelledError (not an Exception) is raised at
\* the await the worker is suspended in, in queue.get() or inside task.func,
\* and leaves the loop through `finally`; a task it held keeps its fields.
ACancelled(w) ==
    /\ design = "async" /\ w.cancel
    /\ workers' = Exited(w)
    /\ UNCHANGED <<design, running, tasks, queue, stopPc, execs, seq>>
    /\ UNCHANGED notifier

\* First run of the worker tasks start() created. create_task schedules them
\* back to back on the loop's FIFO ready list, so no other callback runs
\* between their first steps: each tests `while self.running` and suspends in
\* wait_for(queue.get()).
AFirstRun ==
    /\ design = "async"
    /\ \E w \in Live : w.pc = "new" /\ ~w.cancel
    /\ LET new == Worker("new", NoTask, FALSE)
           n == CopiesIn(new, workers)
       IN  workers' = (workers (-) Spawn(n, new))
                        (+) (IF running THEN Spawn(n, Worker("wait", NoTask, FALSE))
                             ELSE EmptyBag)
    /\ UNCHANGED <<design, running, tasks, queue, stopPc, execs, seq>>
    /\ UNCHANGED notifier

\* mutant of AGet: an id that is not in the registry ends the worker loop
AGetMissingExits(w) ==
    /\ design = "async" /\ ~w.cancel /\ w.pc = "wait"
    /\ Len(queue) > 0
    /\ LET id == Head(queue)[2]
       IN  /\ queue' = Tail(queue)
           /\ IF id \in DOMAIN tasks
              THEN /\ tasks' = [tasks EXCEPT ![id] = Started(@)]
                   /\ execs' = [execs EXCEPT ![id] = @ + 1]
                   /\ workers' = Moved(w, Worker("exec", id, FALSE))
              ELSE /\ workers' = Exited(w)
                   /\ UNCHANGED <<tasks, execs>>
    /\ UNCHANGED <<design, running, stopPc, seq>>
    /\ UNCHANGED notifier

\* queue.get() delivered the least item (the head); the task is marked and task.func is
\* called and suspends at its first await
AGet(w) ==
    /\ design = "async" /\ ~w.cancel /\ w.pc = "wait"
    /\ Len(queue) > 0
    /\ LET id == Head(queue)[2]
       IN  /\ queue' = Tail(queue)
           /\ IF id \in DOMAIN tasks
              THEN /\ tasks' = [tasks EXCEPT ![id] = Started(@)]
                   /\ execs' = [execs EXCEPT ![id] = @ + 1]
                   /\ workers' = Moved(w, Worker("exec", id, FALSE))
              ELSE /\ workers' = ALoop(w)
                   /\ UNCHANGED <<tasks, execs>>
    /\ UNCHANGED <<design, running, stopPc, seq>>
    /\ UNCHANGED notifier

\* wait_for timed out on an empty queue: asyncio.TimeoutError, continue
ATimeout(w) ==
    /\ design = "async" /\ ~w.cancel /\ w.pc = "wait"
    /\ Len(queue) = 0
    /\ workers' = ALoop(w)
    /\ UNCHANGED <<design, running, tasks, queue, stopPc, execs, seq>>
    /\ UNCHANGED notifier

\* what the worker does once task.func returned
AReturned(w) ==
    /\ design = "async" /\ ~w.cancel /\ w.pc = "exec"
    /\ tasks' = [tasks EXCEPT ![w.task] =
                    [@ EXCEPT !.result = "value", !.status = COMPLETED,
                              !.completed_at = TRUE]]
    /\ workers' = ALoop(w)
    /\ UNCHANGED <<design, running, queue, stopPc, execs, seq>>

\* mutant of ARaised: the exception of task.func ends the worker loop
ARaisedExits(w, msg) ==
    /\ design = "async" /\ ~w.cancel /\ w.pc = "exec"
    /\ LET t == [tasks[w.task] EXCEPT !.error = msg, !.retry_count = @ + 1]
       IN  /\ tasks' = [tasks EXCEPT ![w.task] =
                           [t EXCEPT !.status = FailStatus(t),
                                     !.completed_at = ~RetryAgain(t)]]
           /\ queue' = RetryPut(queue, w.task, t)
    /\ workers' = Exited(w)
    /\ UNCHANGED <<design, running, stopPc, execs, seq>>

\* what the worker does once task.func raised an Exception e, str(e) = msg
ARaised(w, msg) ==
    /\ design = "async" /\ ~w.cancel /\ w.pc = "exec"
    /\ LET t == [tasks[w.task] EXCEPT !.error = msg, !.retry_count = @ + 1]
       IN  /\ tasks' = [tasks EXCEPT ![w.task] =
                           [t EXCEPT !.status = FailStatus(t),
                                     !.completed_at = ~RetryAgain(t)]]
           /\ queue' = RetryPut(queue, w.task, t)
    /\ workers' = ALoop(w)
    /\ UNCHANGED <<design, running, stopPc, execs, seq>>

\* task.func, a work function that does not touch the notifier, returned
AReturn(w) == AReturned(w) /\ UNCHANGED notifier

\* task.func, a work function that does not touch the notifier, raised
ARaise(w) == ARaised(w, "msg") /\ UNCHANGED notifier

\* ------------------------------------------------- ThreadPoolQueue._worker
\* `while self.running`
TLoop(w) ==
    /\ design = "thread" /\ w.pc = "check"
    /\ workers' = IF running THEN Moved(w, Worker("wait", NoTask, FALSE)) ELSE Exited(w)
    /\ UNCHANGED <<design, running, tasks, queue, stopPc, execs, seq>>
    /\ UNCHANGED notifier

\* queue.get(timeout=1) delivered the oldest id; under the lock the task is
\* marked RUNNING; then task.func is called
TGet(w) ==
    /\ design = "thread" /\ w.pc = "wait"
    /\ Len(queue) > 0
    /\ LET id == Head(queue)
       IN  /\ queue' = Tail(queue)
           /\ IF id \in DOMAIN tasks
              THEN /\ tasks' = [tasks EXCEPT ![id] = Started(@)]
                   /\ execs' = [execs EXCEPT ![id] = @ + 1]
                   /\ workers' = Moved(w, Worker("exec", id, FALSE))
              ELSE /\ workers' = Moved(w, Worker("check", NoTask, FALSE))
                   /\ UNCHANGED <<tasks, execs>>
    /\ UNCHANGED <<design, running, stopPc, seq>>
    /\ UNCHANGED notifier

\* queue.get timed out: Empty, continue
TTimeout(w) ==
    /\ design = "thread" /\ w.pc = "wait"
    /\ Len(queue) = 0
    /\ workers' = Moved(w, Worker("check", NoTask, FALSE))
    /\ UNCHANGED <<design, running, tasks, queue, stopPc, execs, seq>>
    /\ UNCHANGED notifier

\* task.func returned: task.result is assigned
TReturned(w) ==
    /\ design = "thread" /\ w.pc = "exec"
    /\ tasks' = [tasks EXCEPT ![w.task].result = "value"]
    /\ workers' = Moved(w, [w EXCEPT !.pc = "ret"])
    /\ UNCHANGED <<design, running, queue, stopPc, execs, seq>>

\* task.func, a work function that does not touch the notifier, returned
TReturn(w) == TReturned(w) /\ UNCHANGED notifier

\* under the lock: COMPLETED, completed_at; then task_done and loop
TComplete(w) ==
    /\ design = "thread" /\ w.pc = "ret"
    /\ tasks' = [tasks EXCEPT ![w.task] =
                    [@ EXCEPT !.status = COMPLETED, !.completed_at = TRUE]]
    /\ workers' = Moved(w, Worker("check", NoTask, FALSE))
    /\ UNCHANGED <<design, running, queue, stopPc, execs, seq>>
    /\ UNCHANGED notifier

\* task.func raised an Exception e, str(e) = msg: under the lock, error and
\* retry_count
TRaised(w, msg) ==
    /\ design = "thread" /\ w.pc = "exec"
    /\ tasks' = [tasks EXCEPT ![w.task] =
                    [@ EXCEPT !.error = msg, !.retry_count = @ + 1]]
    /\ workers' = Moved(w, [w EXCEPT !.pc = "exc"])
    /\ UNCHANGED <<design, running, queue, stopPc, execs, seq>>

\* task.func, a work function that does not touch the notifier, raised
TRaise(w) == TRaised(w, "msg") /\ UNCHANGED notifier

\* retry (RETRYING, put the id back) or give up (FAILED); task_done and loop
TRetryOrFail(w) ==
    /\ design = "thread" /\ w.pc = "exc"
    /\ LET t == tasks[w.task]
       IN  /\ tasks' = [tasks EXCEPT ![w.task] =
                           [t EXCEPT !.status = FailStatus(t),
                                     !.completed_at = ~RetryAgain(t)]]
           /\ queue' = RetryPut(queue, w.task, t)
    /\ workers' = Moved(w, Worker("check", NoTask, FALSE))
    /\ UNCHANGED <<design, running, stopPc, execs, seq>>
    /\ UNCHANGED notifier

\* ------------------------------------------------- AsyncQueue.get_task
\* what dict.get returns: None (written <<>>), or the task (written by its
\* fields, in a tuple)
Lookup(d, id) == IF id \in DOMAIN d THEN <<d[id]>> ELSE <<>>

\* mutant of GetTask: the task is taken out of the registry (dict.pop)
GetTaskPopped(id) ==
    /\ design = "async"
    /\ observed' = Observation("get_task", circuit_breaker, <<id, Lookup(tasks, id)>>)
    /\ tasks' = [t \in DOMAIN tasks \ {id} |-> tasks[t]]
    /\ UNCHANGED <<design, running, queue, workers, stopPc, execs, seq>>
    /\ UNCHANGED <<clock, circuit_breaker, calls, archive>>

\* a client calls get_task(id)
GetTask(id) ==
    /\ design = "async"
    /\ observed' = Observation("get_task", circuit_breaker, <<id, Lookup(tasks, id)>>)
    /\ UNCHANGED queues
    /\ UNCHANGED <<clock, circuit_breaker, calls, archive>>

\* the client coroutine that called get_task awaits: the event loop runs
\* other coroutines before the client goes on
ClientAwait ==
    /\ observed.op = "get_task"
    /\ observed' = NoObservation
    /\ UNCHANGED queues
    /\ UNCHANGED <<clock, circuit_breaker, calls, archive>>

\* ------------------------------------------------------- clear_queue
\* The route that empties async_queue: stop() is run to its end (every worker
\* cancelled and awaited), the registry is cleared, start() creates max_workers
\* new worker loops. The ready queue is not touched: the ids it holds stay.
ClearQueue ==
    /\ design = "async"
    /\ stopPc = "idle"
    /\ tasks' = [t \in {} |-> QueuedTask(0, 0)]
    /\ running' = TRUE
    /\ workers' = Spawn(max_workers, Worker("new", NoTask, FALSE))
    /\ UNCHANGED <<design, queue, stopPc, execs, seq>>
    /\ UNCHANGED notifier

\* ------------------------------------------------------- init_queues
\* init_queues(): thread_pool_queue.start(), then async_queue.start() run to
\* its end on an event loop made for the call, which is closed before
\* init_queues returns. The worker coroutines start() created took their
\* first step on that loop and are suspended in wait_for(queue.get()); they
\* belong to the closed loop, which runs no callback again ("closed").
InitQueues ==
    /\ stopPc = "idle"
    /\ running \/ NLive + max_workers <= MaxLive
    /\ workers' = workers (+)
            (IF running THEN EmptyBag
             ELSE Spawn(max_workers,
                        Worker(IF design = "async" THEN "closed" ELSE "check",
                               NoTask, FALSE)))
    /\ running' = TRUE
    /\ UNCHANGED <<design, tasks, queue, stopPc, execs, seq>>
    /\ UNCHANGED notifier

\* ------------------------------------------- the breaker called directly

\* the instants the clock is read at: around the start of each day, and around
\* one Timeout later
Instants(days) ==
    {d * SecondsPerDay + s : d \in 0..days, s \in {0, 1, Timeout - 1, Timeout}}

\* time passes, up to one of the instants I
Tick(I) ==
    /\ \E t \in I : t > clock /\ clock' = t
    /\ observed' = NoObservation
    /\ UNCHANGED <<circuit_breaker, calls, archive>>
    /\ UNCHANGED queues

\* a client calls is_circuit_open()
is_circuit_open ==
    /\ observed' = Observation("is_circuit_open", circuit_breaker,
                                IsOpen(circuit_breaker))
    /\ circuit_breaker' = Checked(circuit_breaker)
    /\ UNCHANGED <<clock, calls, archive>>
    /\ UNCHANGED queues

\* a client calls record_failure()
record_failure ==
    /\ circuit_breaker.failures < MaxRecorded
    /\ circuit_breaker' = Failed(circuit_breaker)
    /\ observed' = Observation("record_failure", circuit_breaker, None)
    /\ UNCHANGED <<clock, calls, archive>>
    /\ UNCHANGED queues

\* a client calls record_success()
record_success ==
    /\ circuit_breaker' = Succeeded(circuit_breaker)
    /\ observed' = Observation("record_success", circuit_breaker, None)
    /\ UNCHANGED <<clock, calls, archive>>
    /\ UNCHANGED queues

\* ------------------------------------------------ AcademicNotifier.notify
\* mutant of Notify: the circuit check is made inside the try block, so that
\* a rejected call records a failure
NotifyRecordsRejection(c, et, user, cap) ==
    /\ calls[c].pc = "idle"
    /\ calls[c].made < cap
    /\ LET k == [IdleCall EXCEPT !.made = calls[c].made + 1,
                                 !.base = Len(archive)]
       IN  calls' = [calls EXCEPT ![c] =
                IF IsOpen(circuit_breaker)
                THEN [k EXCEPT !.outcome = "raised", !.error = CircuitOpenMessage]
                ELSE [k EXCEPT !.pc = "send",
                               !.priority = get_priority(et),
                               !.plan = Channels(get_priority(et), user)]]
    /\ circuit_breaker' = IF IsOpen(circuit_breaker) THEN Failed(circuit_breaker)
                          ELSE Checked(circuit_breaker)
    /\ UNCHANGED <<clock, observed, archive>>

\* Caller c calls notify(user, title, body, et), its cap-th call at most.
\* is_circuit_open() is evaluated first: an open breaker raises at once,
\* outside the try block; else priority and channels are resolved.
Notify(c, et, user, cap) ==
    /\ calls[c].pc = "idle"
    /\ calls[c].made < cap
    /\ LET k == [IdleCall EXCEPT !.made = calls[c].made + 1,
                                 !.base = Len(archive)]
       IN  calls' = [calls EXCEPT ![c] =
                IF IsOpen(circuit_breaker)
                THEN [k EXCEPT !.outcome = "raised", !.error = CircuitOpenMessage]
                ELSE [k EXCEPT !.pc = "send",
                               !.priority = get_priority(et),
                               !.plan = Channels(get_priority(et), user)]]
    /\ circuit_breaker' = Checked(circuit_breaker)
    /\ UNCHANGED <<clock, observed, archive>>

\* the call moves on from a channel that was dealt with
NextChannel(k) ==
    LET rest == Tail(k.plan)
    IN  [k EXCEPT !.plan = rest, !.attempt = 0,
                  !.pc = IF rest = <<>> THEN "archive" ELSE "send"]

\* mutant of SendAttempt: a channel is given up after one more attempt
SendAttemptOnceMore(c, ok) ==
    /\ calls[c].pc = "send"
    /\ LET k == [calls[c] EXCEPT !.sent = @ + 1]
           ch == Head(k.plan)
       IN  calls' = [calls EXCEPT ![c] =
                IF ok THEN NextChannel([k EXCEPT !.results = Append(@, SendResult(ch))])
                ELSE IF k.attempt + 1 <= Retries THEN [k EXCEPT !.attempt = @ + 1]
                ELSE IF k.priority = CRITICAL THEN NextChannel(k)
                ELSE [k EXCEPT !.pc = "failure", !.error = SendError(ch)]]
    /\ UNCHANGED <<clock, circuit_breaker, observed, archive>>

\* mutant of SendAttempt: a channel that failed for good ends the call,
\* whatever the priority
SendAttemptAborting(c, ok) ==
    /\ calls[c].pc = "send"
    /\ LET k == [calls[c] EXCEPT !.sent = @ + 1]
           ch == Head(k.plan)
       IN  calls' = [calls EXCEPT ![c] =
                IF ok THEN NextChannel([k EXCEPT !.results = Append(@, SendResult(ch))])
                ELSE IF k.attempt + 1 < Retries THEN [k EXCEPT !.attempt = @ + 1]
                ELSE [k EXCEPT !.pc = "failure", !.error = SendError(ch)]]
    /\ UNCHANGED <<clock, circuit_breaker, observed, archive>>

\* One attempt of send_email / send_push / send_sms on the next channel,
\* under retry_on_failure: a success is appended to results; a failure is
\* tried again at once, up to Retries attempts; then the exception is
\* swallowed by send_all_channels (CRITICAL) or leaves the try block.
SendAttempt(c, ok) ==
    /\ calls[c].pc = "send"
    /\ LET k == [calls[c] EXCEPT !.sent = @ + 1]
           ch == Head(k.plan)
       IN  calls' = [calls EXCEPT ![c] =
                IF ok THEN NextChannel([k EXCEPT !.results = Append(@, SendResult(ch))])
                ELSE IF k.attempt + 1 < Retries THEN [k EXCEPT !.attempt = @ + 1]
                ELSE IF k.priority = CRITICAL THEN NextChannel(k)
                ELSE [k EXCEPT !.pc = "failure", !.error = SendError(ch)]]
    /\ UNCHANGED <<clock, circuit_breaker, observed, archive>>

\* mutant of ArchiveNotification: a failed commit is logged and swallowed
ArchiveSwallowed(c, ok) ==
    /\ calls[c].pc = "archive"
    /\ archive' = IF ok THEN Append(archive, Notification(calls[c])) ELSE archive
    /\ calls' = [calls EXCEPT ![c].pc = "success"]
    /\ UNCHANGED <<clock, circuit_breaker, observed>>

\* archive_notification: the row is added and committed, or the session is
\* rolled back and the exception raised again
ArchiveNotification(c, ok) ==
    /\ calls[c].pc = "archive"
    /\ IF ok
       THEN /\ archive' = Append(archive, Notification(calls[c]))
            /\ calls' = [calls EXCEPT ![c].pc = "success"]
       ELSE /\ archive' = archive
            /\ calls' = [calls EXCEPT ![c] =
                            [@ EXCEPT !.pc = "failure", !.error = ArchiveError]]
    /\ UNCHANGED <<clock, circuit_breaker, observed>>

\* self.record_success(); return notification_data
NotifyReturn(c) ==
    /\ calls[c].pc = "success"
    /\ circuit_breaker' = Succeeded(circuit_breaker)
    /\ calls' = [calls EXCEPT ![c] = [@ EXCEPT !.pc = "idle", !.outcome = "returned"]]
    /\ UNCHANGED <<clock, observed, archive>>

\* except Exception: self.record_failure(); raise
NotifyRaise(c) ==
    /\ calls[c].pc = "failure"
    /\ circuit_breaker' = Failed(circuit_breaker)
    /\ calls' = [calls EXCEPT ![c] = [@ EXCEPT !.pc = "idle", !.outcome = "raised"]]
    /\ UNCHANGED <<clock, observed, archive>>

\* except Exception: self.record_failure() entered by a thread that runs
\* beside others. `self._circuit_breaker_failures += 1` is a read, an addition
\* and a write with no lock around them: the thread reads the count ...
RecordFailureLoad(c) ==
    /\ calls[c].pc = "failure"
    /\ calls' = [calls EXCEPT ![c] =
                    [@ EXCEPT !.pc = "recording", !.loaded = circuit_breaker.failures]]
    /\ UNCHANGED <<clock, circuit_breaker, observed, archive>>

\* ... and writes it back, one higher, whatever the count has become since;
\* then last_failure = datetime.now(), and raise
RecordFailureStore(c) ==
    /\ calls[c].pc = "recording"
    /\ circuit_breaker' = [failures |-> calls[c].loaded + 1, last_failure |-> At(clock)]
    /\ calls' = [calls EXCEPT ![c] =
                    [@ EXCEPT !.pc = "idle", !.outcome = "raised", !.loaded = 0]]
    /\ UNCHANGED <<clock, observed, archive>>

\* ----------------------------------------------- notify called by a client
ClientNotify(E, cap) ==
    /\ \E et \in E, user \in Users : Notify(NoTask, et, user, cap)
    /\ UNCHANGED queues

\* a client calls notify for a user of U
ClientNotifyTo(E, U, cap) ==
    /\ \E et \in E, user \in U : Notify(NoTask, et, user, cap)
    /\ UNCHANGED queues

ClientSend(O) == (\E ok \in O : SendAttempt(NoTask, ok)) /\ UNCHANGED queues
ClientArchive == (\E ok \in BOOLEAN : ArchiveNotification(NoTask, ok)) /\ UNCHANGED queues
ClientReturn == NotifyReturn(NoTask) /\ UNCHANGED queues
ClientRaise == NotifyRaise(NoTask) /\ UNCHANGED queues

\* a client, not inside another call, calls get_priority(a)
GetPriority(A) ==
    /\ calls[NoTask].pc = "idle"
    /\ \E a \in A :
          observed' = Observation("get_priority", circuit_breaker,
                                  <<a, get_priority(a)>>)
    /\ UNCHANGED <<clock, circuit_breaker, calls, archive>>
    /\ UNCHANGED queues

\* Caller c calls send_notification_sync(app, user_id, title, body, tag), its
\* cap-th call at most: a ValueError if the user is not in the database, else
\* the string is resolved and notify called with to_dict() of the user. (The
\* performance metrics it saves afterwards are not part of the state.)
SendNotificationSync(c, tag, cap) ==
    \/ /\ calls[c].pc = "idle"
       /\ calls[c].made < cap
       /\ calls' = [calls EXCEPT ![c] =
                       [IdleCall EXCEPT !.made = calls[c].made + 1,
                                        !.base = Len(archive),
                                        !.outcome = "raised",
                                        !.error = UserNotFound]]
       /\ UNCHANGED <<clock, circuit_breaker, observed, archive>>
    \/ \E user \in Users : Notify(c, Resolve(tag), user, cap)

ClientSync(T, cap) ==
    /\ \E tag \in T : SendNotificationSync(NoTask, tag, cap)
    /\ UNCHANGED queues

\* ------------------------------------------- the route /send-notification
\* POST /send-notification, its cap-th request at most, from the form to the
\* return of notify: a request with a field missing (present false) or for a
\* user that is not in the database (found false) is answered with an error
\* and changes nothing; else the emergency type is resolved as
\* send_notification_sync does and notify called with to_dict() of the user.
\* Requests are served one after the other.
send_notification(present, found, tag, cap) ==
    /\ calls[NoTask].outcome # "returned"
    /\ IF present /\ found
       THEN \E user \in Users : Notify(NoTask, Resolve(tag), user, cap)
       ELSE /\ calls[NoTask].pc = "idle"
            /\ calls[NoTask].made < cap
            /\ calls' = [calls EXCEPT ![NoTask] =
                            [IdleCall EXCEPT !.made = calls[NoTask].made + 1,
                                             !.base = Len(archive),
                                             !.outcome = "refused"]]
            /\ UNCHANGED <<clock, circuit_breaker, observed, archive>>
    /\ UNCHANGED queues

\* ... and once notify has returned: the route adds a Notification of its
\* own and commits (status 'sent', flash of success), or the commit fails and
\* is rolled back (flash of the error). A notify call that raised has ended
\* the request in the same `except Exception`.
send_notification_commit(ok) ==
    /\ calls[NoTask].pc = "idle" /\ calls[NoTask].outcome = "returned"
    /\ archive' = IF ok THEN Append(archive, RouteNotification(calls[NoTask]))
                  ELSE archive
    /\ calls' = [calls EXCEPT ![NoTask].outcome = IF ok THEN "sent" ELSE "raised"]
    /\ UNCHANGED <<clock, circuit_breaker, observed>>
    /\ UNCHANGED queues

\* ------------------------------------------ notify called by a queued task
\* notify has no await in it: on the event loop of the AsyncQueue a call runs
\* to its end before another worker runs; worker threads call it in parallel
Alone(c) == design = "async" => \A d \in Callers \ {c} : calls[d].pc = "idle"

\* the work function of the task worker w executes calls notify, with an
\* emergency type of E
TaskNotifyAbout(w, E) ==
    /\ w.pc = "exec" /\ ~w.cancel
    /\ calls[w.task].outcome = None
    /\ Alone(w.task)
    /\ \E et \in E, user \in Users : Notify(w.task, et, user, 1)
    /\ UNCHANGED queues

TaskNotify(w) == TaskNotifyAbout(w, EmergencyType)

\* the work function ends as its notify call did, which the worker records
TaskNotified(w) ==
    /\ w.task # NoTask
    /\ calls[w.task].pc = "idle" /\ calls[w.task].outcome # None
    /\ IF calls[w.task].outcome = "returned"
       THEN IF design = "async" THEN AReturned(w) ELSE TReturned(w)
       ELSE IF design = "async" THEN ARaised(w, calls[w.task].error)
            ELSE TRaised(w, calls[w.task].error)
    /\ calls' = [calls EXCEPT ![w.task] = IdleCall]
    /\ UNCHANGED <<clock, circuit_breaker, observed, archive>>

\* the notify call of the task worker w executes goes on: a send attempt, the
\* archiving, the return or the exception
TaskSend(w, ok) ==
    /\ w.pc = "exec" /\ ~w.cancel
    /\ SendAttempt(w.task, ok)
    /\ UNCHANGED queues

TaskArchive(w, ok) ==
    /\ w.pc = "exec" /\ ~w.cancel
    /\ ArchiveNotification(w.task, ok)
    /\ UNCHANGED queues

TaskReturn(w) ==
    /\ w.pc = "exec" /\ ~w.cancel
    /\ NotifyReturn(w.task)
    /\ UNCHANGED queues

\* on the event loop record_failure runs to its end undisturbed
TaskRaise(w) ==
    /\ design = "async"
    /\ w.pc = "exec" /\ ~w.cancel
    /\ NotifyRaise(w.task)
    /\ UNCHANGED queues

\* in a worker thread it runs beside the calls of the other threads
TaskRecordFailure(w) ==
    /\ design = "thread"
    /\ w.pc = "exec"
    /\ RecordFailureLoad(w.task)
    /\ UNCHANGED queues

TaskFailureRecorded(w) ==
    /\ design = "thread"
    /\ w.pc = "exec"
    /\ RecordFailureStore(w.task)
    /\ UNCHANGED queues

\* ------------------------------------------------------- specification
\* a step of some worker loop of the AsyncQueue that was not cancelled
AServe ==
    \/ AFirstRun
    \/ \E w \in Live : AGet(w)
    \/ \E w \in Live : ATimeout(w)
    \/ \E w \in Live : AReturn(w)
    \/ \E w \in Live : ARaise(w)

\* a step of some worker loop of the AsyncQueue
AWorker ==
    \/ \E w \in Live : ACancelled(w)
    \/ AServe

\* a step of some worker thread of the ThreadPoolQueue
TWorker ==
    \/ \E w \in Live : TLoop(w)
    \/ \E w \in Live : TGet(w)
    \/ \E w \in Live : TTimeout(w)
    \/ \E w \in Live : TReturn(w)
    \/ \E w \in Live : TComplete(w)
    \/ \E w \in Live : TRaise(w)
    \/ \E w \in Live : TRetryOrFail(w)

Next ==
    \/ Start
    \/ TStop
    \/ AStopBegin
    \/ AStopEnd
    \/ EnqueueAny(Priorities, RetryArgs)
    \/ AWorker
    \/ TWorker

Spec == Init /\ [][Next]_vars

\* Callers that leave priority at its default and pass one max_retries value
\* in all their enqueue calls.
EnqueueSameRetries ==
    \E n \in RetryArgs :
        /\ \A t \in DOMAIN tasks : tasks[t].max_retries = n
        /\ EnqueueAny({0}, {n})

NextRetry ==
    \/ Start
    \/ TStop
    \/ AStopBegin
    \/ AStopEnd
    \/ EnqueueSameRetries
    \/ AWorker
    \/ TWorker

SpecRetry == Init /\ [][NextRetry]_vars

\* The AsyncQueue with callers that choose the priority and leave max_retries
\* at its default.
InitAsync == Init /\ design = "async"

NextPriority ==
    \/ Start
    \/ AStopBegin
    \/ AStopEnd
    \/ EnqueueAny(Priorities, {DefaultMaxRetries})
    \/ AWorker

SpecPriority == InitAsync /\ [][NextPriority]_vars

\* A queue that is started and never stopped, every call of a work function
\* returning or raising, and every worker loop scheduled again and again.
NextLive ==
    \/ Start
    \/ EnqueueSameRetries
    \/ AServe
    \/ TWorker

\* the worker that runs task id leaves task.func, by return or by exception
Finish(id) ==
    \E w \in Live :
        /\ w.task = id
        /\ AReturn(w) \/ ARaise(w) \/ TReturn(w) \/ TRaise(w)

Fairness ==
    /\ WF_vars(AFirstRun)
    /\ WF_vars(\E w \in Live : AGet(w))
    /\ WF_vars(\E w \in Live : TLoop(w))
    /\ WF_vars(\E w \in Live : TGet(w))
    /\ WF_vars(\E w \in Live : TComplete(w))
    /\ WF_vars(\E w \in Live : TRetryOrFail(w))
    /\ \A id \in Ids : WF_vars(Finish(id))

SpecLive == Init /\ [][NextLive]_vars /\ Fairness

\* Callers of enqueue on a queue that is started at some point and not stopped;
\* they pass any priority, and max_retries 0 or 1.
NextEnqueue ==
    \/ Start
    \/ EnqueueAny(Priorities, 0..1)
    \/ AServe
    \/ TWorker

SpecEnqueue == Init /\ [][NextEnqueue]_vars

\* The breaker of one notifier driven through its three methods by a client,
\* while time passes.
InitBreaker == NewQueue /\ design = "async" /\ NewNotifier(0)

NextBreaker ==
    \/ is_circuit_open
    \/ record_failure
    \/ record_success
    \/ Tick(Instants(MaxDays))

SpecBreaker == InitBreaker /\ [][NextBreaker]_vars

\* A client calling notify, one call after the other, on a notifier whose
\* breaker has recorded any number of failures up to the threshold; every send
\* attempt and the archiving may succeed or fail.
InitNotify ==
    /\ NewQueue /\ design = "async"
    /\ \E k \in 0..MaxFailures : NewNotifier(k)

NextNotify ==
    \/ ClientNotify(EmergencyType, MaxCalls)
    \/ ClientSend(BOOLEAN)
    \/ ClientArchive
    \/ ClientReturn
    \/ ClientRaise
    \/ Tick(Instants(0))

SpecNotify == InitNotify /\ [][NextNotify]_vars

\* A client calling notify with non-critical emergency types, one call after
\* the other, on a new notifier whose channel senders fail on every attempt.
NonCritical == {et \in EmergencyType : get_priority(et) # CRITICAL}

NextFailing ==
    \/ ClientNotify(NonCritical, MaxFailures + 1)
    \/ ClientSend({FALSE})
    \/ ClientRaise
    \/ Tick(Instants(0))

SpecFailing == InitBreaker /\ [][NextFailing]_vars

\* A queue, started and never stopped, whose tasks call notify on a notifier
\* whose breaker is open and stays open (no time passes, nothing resets it).
InitOpen == NewQueue /\ NewNotifier(MaxFailures)

NextOpen ==
    \/ Start
    \/ EnqueueSameRetries
    \/ AFirstRun
    \/ \E w \in Live : AGet(w)
    \/ \E w \in Live : ATimeout(w)
    \/ \E w \in Live : TLoop(w)
    \/ \E w \in Live : TGet(w)
    \/ \E w \in Live : TTimeout(w)
    \/ \E w \in Live : TRetryOrFail(w)
    \/ \E w \in Live : TaskNotify(w)
    \/ \E w \in Live : TaskNotified(w)

FairnessOpen ==
    /\ WF_vars(AFirstRun)
    /\ WF_vars(\E w \in Live : AGet(w))
    /\ WF_vars(\E w \in Live : TLoop(w))
    /\ WF_vars(\E w \in Live : TGet(w))
    /\ WF_vars(\E w \in Live : TRetryOrFail(w))
    /\ \A id \in Ids : WF_vars(\E w \in Live : w.task = id /\ TaskNotify(w))
    /\ \A id \in Ids : WF_vars(\E w \in Live : w.task = id /\ TaskNotified(w))

SpecOpen == InitOpen /\ [][NextOpen]_vars /\ FairnessOpen

\* A client calling get_priority, again and again, and send_notification_sync,
\* once, with any argument; every send attempt and the archiving may succeed
\* or fail.
NextResolve ==
    \/ GetPriority(Arguments)
    \/ ClientSync(Tags, 1)
    \/ ClientSend(BOOLEAN)
    \/ ClientArchive
    \/ ClientReturn
    \/ ClientRaise

SpecResolve == InitBreaker /\ [][NextResolve]_vars

\* an enqueue call whose uuid4 happens to be greater than those drawn before
EnqueueAscending(p, n) ==
    \E id \in FreshIds : (\A t \in DOMAIN tasks : t < id) /\ Enqueue(id, p, n)

\* A client coroutine looking tasks up on an AsyncQueue whose tasks have any
\* priority and max_retries 1 or 2. get_task has no await: between two calls
\* the client makes in a row no worker runs; the workers and the other
\* callers run while the client awaits.
NextLookup ==
    \/ \E id \in Ids : GetTask(id)
    \/ ClientAwait
    \/ observed.op # "get_task" /\ Start
    \/ observed.op # "get_task" /\ EnqueueAny(Priorities, 1..2)
    \/ observed.op # "get_task" /\ AServe

SpecLookup == InitAsync /\ [][NextLookup]_vars

\* A queue, started and never stopped, whose tasks (default priority, two
\* executions allowed) call notify about the weather on the notifier the
\* workers share; the channel senders deliver, the archiving may fail.
NextArchive ==
    \/ Start
    \/ EnqueueAscending(0, 2)
    \/ AFirstRun
    \/ \E w \in Live : AGet(w)
    \/ \E w \in Live : ATimeout(w)
    \/ \E w \in Live : TLoop(w)
    \/ \E w \in Live : TGet(w)
    \/ \E w \in Live : TTimeout(w)
    \/ \E w \in Live : TComplete(w)
    \/ \E w \in Live : TRetryOrFail(w)
    \/ \E w \in Live : TaskNotifyAbout(w, {"WEATHER"})
    \/ \E w \in Live : TaskSend(w, TRUE)
    \/ \E w \in Live, ok \in BOOLEAN : TaskArchive(w, ok)
    \/ \E w \in Live : TaskReturn(w)
    \/ \E w \in Live : TaskRaise(w)
    \/ \E w \in Live : TaskRecordFailure(w)
    \/ \E w \in Live : TaskFailureRecorded(w)
    \/ \E w \in Live : TaskNotified(w)

SpecArchive == Init /\ [][NextArchive]_vars

\* A queue of either design that is started, stopped and started again at
\* will, with tasks of default priority that are allowed two executions.
NextRestart ==
    \/ Start
    \/ TStop
    \/ AStopBegin
    \/ AStopEnd
    \/ EnqueueAscending(0, 2)
    \/ AWorker
    \/ TWorker

SpecRestart == Init /\ [][NextRestart]_vars

\* A ThreadPoolQueue, started and never stopped, whose tasks (one execution
\* each) call notify on one notifier about academic matters, every send
\* attempt failing: the worker threads run failing notify calls side by side.
NextShared ==
    \/ Start
    \/ EnqueueAscending(0, 1)
    \/ \E w \in Live : TLoop(w)
    \/ \E w \in Live : TGet(w)
    \/ \E w \in Live : TTimeout(w)
    \/ \E w \in Live : TRetryOrFail(w)
    \/ \E w \in Live : TaskNotifyAbout(w, {"ACADEMIC"})
    \/ \E w \in Live : TaskSend(w, FALSE)
    \/ \E w \in Live : TaskRecordFailure(w)
    \/ \E w \in Live : TaskFailureRecorded(w)
    \/ \E w \in Live : TaskNotified(w)

\* ... on a new notifier
InitShared == NewQueue /\ design = "thread" /\ NewNotifier(0)
SpecShared == InitShared /\ [][NextShared]_vars

\* ... on a notifier whose earlier calls left the breaker one failure short
\* of its threshold
InitNearlyOpen == NewQueue /\ design = "thread" /\ NewNotifier(MaxFailures - 1)
SpecNearlyOpen == InitNearlyOpen /\ [][NextShared]_vars

\* An AsyncQueue, started and never stopped, with callers that choose the
\* priority; every task is allowed two executions, so that a first failure
\* puts it back.
NextRequeue ==
    \/ Start
    \/ EnqueueAny(Priorities, {2})
    \/ AServe

SpecRequeue == InitAsync /\ [][NextRequeue]_vars

\* An AsyncQueue that is cleared and restarted at will while callers enqueue
\* tasks of any priority that are allowed two executions.
NextClear ==
    \/ Start
    \/ ClearQueue
    \/ EnqueueAny(Priorities, {2})
    \/ AServe

SpecClear == InitAsync /\ [][NextClear]_vars

\* A client calling notify about security or health for users who have a
\* phone number, on a new notifier; every send attempt and the archiving may
\* succeed or fail.
PhoneUsers == {user \in Users : HasPhone(user)}

NextCritical ==
    \/ ClientNotifyTo({"SECURITY", "HEALTH"}, PhoneUsers, MaxCalls)
    \/ ClientSend(BOOLEAN)
    \/ ClientArchive
    \/ ClientReturn
    \/ ClientRaise

SpecCritical == InitBreaker /\ [][NextCritical]_vars

\* A queue started by init_queues, or by a start() call made on an event loop
\* that keeps running, and never stopped; tasks are enqueued once it is
\* started, every work function returns or raises, every worker loop that
\* can run is scheduled again and again.
NextInit ==
    \/ Start
    \/ InitQueues
    \/ running /\ EnqueueSameRetries
    \/ AServe
    \/ TWorker

SpecInit == Init /\ [][NextInit]_vars /\ Fairness

\* A client calling notify about academic matters or the weather, one call
\* after the other, while time passes, on a notifier whose breaker has
\* recorded failures up to one short of its threshold, as many, or one more;
\* every send attempt fails.
InitRejected ==
    /\ NewQueue /\ design = "async"
    /\ \E k \in (MaxFailures - 1)..(MaxFailures + 1) : NewNotifier(k)

NextRejected ==
    \/ ClientNotify({"ACADEMIC", "WEATHER"}, MaxCalls + 1)
    \/ ClientSend({FALSE})
    \/ ClientRaise
    \/ Tick(Instants(MaxDays))

SpecRejected == InitRejected /\ [][NextRejected]_vars

\* The route /send-notification serving requests, valid or not, on the
\* notifier of the application; every send attempt, the archiving and the
\* commit of the route may succeed or fail.
NextPost ==
    \/ \E present, found \in BOOLEAN, tag \in Tags :
           send_notification(present, found, tag, MaxCalls)
    \/ ClientSend(BOOLEAN)
    \/ ClientArchive
    \/ ClientReturn
    \/ ClientRaise
    \/ \E ok \in BOOLEAN : send_notification_commit(ok)

SpecPost == InitBreaker /\ [][NextPost]_vars

\* =================================================================== claims
TaskIds == DOMAIN tasks
Max(a, b) == IF a >= b THEN a ELSE b
Terminal(t) == tasks[t].status \in {COMPLETED, FAILED}
\* task ids waiting in the ready queue
Queued ==
    IF design = "async" THEN {queue[i][2] : i \in 1..Len(queue)}
    ELSE {queue[i] : i \in 1..Len(queue)}
\* waiting tasks that no worker has started yet
NotStarted == {u \in Queued \cap TaskIds : tasks[u].status = PENDING}
\* some worker holds task t: it dequeued it and has not finished its iteration
Held(t) == \E w \in Live : w.task = t
\* this step is a worker taking task t from the ready queue and calling its func
Dequeued(t) == execs'[t] = execs[t] + 1
\* stop() was called, has returned, and start() was not called since
StopReturned == ~running /\ stopPc = "idle"

\* C1 (as stated): a task with max_retries = N whose work function failed on
\* every call (any FAILED task: one success would have completed it) is FAILED
\* with retry_count = N after N + 1 executions.
C1_Original ==
    \A t \in TaskIds :
        tasks[t].status = FAILED =>
            /\ tasks[t].retry_count = tasks[t].max_retries
            /\ execs[t] = tasks[t].max_retries + 1

\* C1 (amended): no task is executed more than max(N, 1) times, and a FAILED
\* task was executed exactly max(N, 1) times and has retry_count = max(N, 1):
\* N executions for N >= 1, one execution and retry_count 1 for N = 0.
C1_FailedAfterMaxRetriesExecutions ==
    \A t \in TaskIds :
        LET m == Max(tasks[t].max_retries, 1)
        IN  /\ execs[t] <= m
            /\ tasks[t].status = FAILED =>
                   tasks[t].retry_count = m /\ execs[t] = m

\* a task enqueued with the default max_retries has failed for good
C1_Witness ==
    \E t \in TaskIds :
        /\ tasks[t].status = FAILED
        /\ tasks[t].max_retries = DefaultMaxRetries
        /\ execs[t] = DefaultMaxRetries

\* C2: in every reachable state every task has retry_count <= max_retries,
\* whatever max_retries >= 0 was passed to enqueue.
C2_RetryCountWithinMax ==
    \A t \in TaskIds : tasks[t].retry_count <= tasks[t].max_retries

\* the status changes the claim allows
AllowedMoves ==
    {<<PENDING, RUNNING>>, <<RUNNING, COMPLETED>>, <<RUNNING, RETRYING>>,
     <<RUNNING, FAILED>>, <<RETRYING, RUNNING>>}

\* C3: a status changes only along PENDING->RUNNING, RUNNING->COMPLETED,
\* RUNNING->RETRYING, RUNNING->FAILED, RETRYING->RUNNING, and a COMPLETED or
\* FAILED task is never changed nor executed again.
C3_StatusMoves ==
    [][\A t \in TaskIds :
          /\ tasks'[t].status # tasks[t].status =>
                 <<tasks[t].status, tasks'[t].status>> \in AllowedMoves
          /\ Terminal(t) => tasks'[t] = tasks[t] /\ execs'[t] = execs[t]]_vars

\* one task completed on a second attempt and stays so while a worker runs
\* another task
C3_Witness ==
    \E t, u \in TaskIds :
        /\ tasks[t].status = COMPLETED /\ tasks[t].retry_count >= 1
        /\ tasks[u].status = RUNNING /\ Held(u)

\* C4: on a queue that was started and is never stopped, with work functions
\* that always return or raise and fairly scheduled workers, every enqueued
\* task eventually is COMPLETED or FAILED.
C4_EventuallyTerminal ==
    \A t \in Ids :
        (running /\ t \in TaskIds) ~> (t \in TaskIds /\ Terminal(t))

\* a task failed for good after being retried, another completed
C4_Witness ==
    /\ running
    /\ \E t, u \in TaskIds :
        /\ tasks[t].status = FAILED /\ tasks[t].retry_count >= 2
        /\ tasks[u].status = COMPLETED

\* C5: the number of live worker loops never exceeds max_workers, and on a
\* running queue no step (a start() call in particular) adds a worker loop.
C5_LiveWorkersBounded ==
    [][NLive' <= max_workers /\ (running => NLive' <= NLive)]_vars

\* C6: once stop() has returned, and until start() is called again, no worker
\* takes an item from the ready queue or starts executing a task.
C6_NoDequeueAfterStop ==
    [][StopReturned => \A t \in TaskIds : ~Dequeued(t)]_vars

\* C7: a task whose status is RUNNING is held by a worker that will record the
\* outcome of its work function; stop() leaves no RUNNING task without one.
C7_RunningTaskHeld ==
    \A t \in TaskIds : tasks[t].status = RUNNING => Held(t)

\* C8 (as stated): the task a worker of the AsyncQueue dequeues has a priority
\* >= that of every other not-yet-started task in the ready queue.
C8_Original ==
    [][design = "async" =>
         \A t \in TaskIds :
             Dequeued(t) =>
                 \A u \in NotStarted \ {t} :
                     tasks[t].priority >= tasks[u].priority]_vars

\* the key of the ready item of task u
KeyOf(u) == (CHOOSE i \in 1..Len(queue) : queue[i][2] = u)
ItemKey(u) == queue[KeyOf(u)][1]

\* C8 (amended): the item a worker of the AsyncQueue dequeues has the least
\* key of the ready queue (-priority for a task not yet started, -1 for a task
\* put back after a failure); so a not-yet-started task that is dequeued has a
\* priority >= that of every other not-yet-started task waiting.
C8_LeastKeyFirst ==
    [][design = "async" =>
         \A t \in TaskIds :
             Dequeued(t) =>
                 /\ \A u \in Queued \ {t} : ItemKey(t) <= ItemKey(u)
                 /\ tasks[t].status = PENDING =>
                        \A u \in NotStarted \ {t} :
                            tasks[t].priority >= tasks[u].priority]_vars

\* a priority 2 task enqueued second, under the greater id, was started while
\* the priority 0 task enqueued first still waits
C8_Witness ==
    /\ design = "async"
    /\ \E t, u \in TaskIds :
        /\ tasks[t].priority = 2 /\ tasks[t].status = RUNNING /\ execs[t] = 1
        /\ tasks[u].priority = 0 /\ u \in NotStarted
        /\ seq[u] < seq[t] /\ u < t

\* C9: a worker of the ThreadPoolQueue dequeues a waiting task of higher
\* priority before any waiting task of lower priority.
C9_ThreadPriorityFirst ==
    [][design = "thread" =>
         \A t \in TaskIds :
             Dequeued(t) /\ tasks[t].status = PENDING =>
                 \A u \in NotStarted \ {t} :
                     tasks[t].priority >= tasks[u].priority]_vars

\* C10 (as stated): among not-yet-started tasks of the AsyncQueue enqueued with
\* the same priority, the one enqueued first is dequeued first.
C10_Original ==
    [][design = "async" =>
         \A t \in TaskIds :
             Dequeued(t) /\ tasks[t].status = PENDING =>
                 \A u \in NotStarted \ {t} :
                     tasks[u].priority = tasks[t].priority => seq[t] < seq[u]]_vars

\* C10 (amended): among not-yet-started tasks of the AsyncQueue enqueued with
\* the same priority, the one with the least task id is dequeued first.
C10_LeastIdFirst ==
    [][design = "async" =>
         \A t \in TaskIds :
             Dequeued(t) /\ tasks[t].status = PENDING =>
                 \A u \in NotStarted \ {t} :
                     tasks[u].priority = tasks[t].priority => t < u]_vars

\* of two tasks of one priority, the one enqueued second was started first
C10_Witness ==
    /\ design = "async"
    /\ \E t, u \in TaskIds :
        /\ tasks[t].priority = tasks[u].priority
        /\ tasks[t].status = RUNNING /\ execs[t] = 1
        /\ u \in NotStarted
        /\ seq[u] < seq[t]

\* C11: a step that adds a registry entry (an enqueue call, on either queue,
\* running or not) adds exactly one, under an id that was absent, as a fresh
\* PENDING record with retry_count 0 and the priority under which it is
\* queued; it adds exactly one ready item, for that id; it changes no other
\* task record and no worker, and no other step adds an entry.
C11_EnqueueFrame ==
    [][\A id \in Ids :
          (id \notin TaskIds /\ id \in DOMAIN tasks') =>
              /\ DOMAIN tasks' = TaskIds \cup {id}
              /\ \E p \in Priorities, n \in RetryArgs :
                     /\ tasks'[id] = QueuedTask(p, n)
                     /\ design = "async" =>
                            \E i \in 1..Len(queue') : queue'[i] = <<-p, id>>
              /\ \A t \in TaskIds : tasks'[t] = tasks[t]
              /\ Len(queue') = Len(queue) + 1
              /\ Queued' = Queued \cup {id}
              /\ id \notin Queued
              /\ workers' = workers /\ running' = running]_vars

\* a second task was enqueued on a running queue and waits, PENDING, while
\* the first is being executed
C11_Witness ==
    /\ running
    /\ \E t, u \in TaskIds :
        /\ seq[t] = 1 /\ tasks[t].status = RUNNING /\ Held(t)
        /\ seq[u] = 2 /\ tasks[u] = QueuedTask(MaxPriority, 0)
        /\ u \in Queued

\* C12: a FAILED task has used up its retry budget (retry_count >=
\* max_retries), carries the message of its last failure in error, and has
\* completed_at set.
C12_FailedOnlyWhenExhausted ==
    \A t \in TaskIds :
        tasks[t].status = FAILED =>
            /\ tasks[t].retry_count >= tasks[t].max_retries
            /\ tasks[t].error # None
            /\ tasks[t].completed_at

\* one task failed for good on its second failure while another, failed once
\* with budget left, is RETRYING
C12_Witness ==
    \E t, u \in TaskIds :
        /\ tasks[t].status = FAILED /\ tasks[t].retry_count = 2
        /\ tasks[t].max_retries = 2 /\ tasks[t].error # None
        /\ tasks[u].status = RETRYING /\ tasks[u].retry_count = 1

\* ------------------------------------------------------- circuit breaker
\* the client has just called breaker method op
Called(op) == observed.op = op
\* the breaker state b has reached the threshold and was last failed less
\* than Timeout seconds before now
WithinCooldown(b) ==
    /\ b.failures >= MaxFailures
    /\ b.last_failure # Never
    /\ clock - b.last_failure[1] < Timeout

\* C13: is_circuit_open() returns True exactly when failure_count >=
\* max_failures and the time since the last failure is below timeout.
C13_OpenExactlyWithinCooldown ==
    Called("is_circuit_open") =>
        (observed.value <=> WithinCooldown(observed.before))

\* C14: called on a breaker that reached the threshold, any duration >=
\* timeout after its last failure, is_circuit_open() returns False and leaves
\* failure_count = 0.
C14_ClosedAfterTimeout ==
    (/\ Called("is_circuit_open")
     /\ observed.before.failures >= MaxFailures
     /\ observed.before.last_failure # Never
     /\ clock - observed.before.last_failure[1] >= Timeout)
        => (observed.value = FALSE /\ circuit_breaker.failures = 0)

\* C15: record_success(), whatever the breaker state it is called in, leaves
\* failure_count = 0 and last_failure_time = None, a state in which
\* is_circuit_open() returns False.
C15_SuccessResets ==
    Called("record_success") =>
        /\ circuit_breaker = [failures |-> 0, last_failure |-> Never]
        /\ ~IsOpen(circuit_breaker)
        /\ Checked(circuit_breaker) = circuit_breaker

\* record_success() was called on an open breaker, past the threshold
C15_Witness ==
    /\ Called("record_success")
    /\ observed.before.failures > MaxFailures
    /\ WithinCooldown(observed.before)
    /\ circuit_breaker.failures = 0

\* ------------------------------------------------------------------ notify
\* caller c enters notify in this step
Begins(c) == calls'[c].made = calls[c].made + 1
\* the notify call of caller c ends in this step, by return or by exception
Ends(c) == calls[c].pc # "idle" /\ calls'[c].pc = "idle"
\* the call of c that just began was rejected: it ended at once with the
\* circuit-open error, no send attempted
Rejected(k) ==
    /\ k.pc = "idle" /\ k.outcome = "raised" /\ k.error = CircuitOpenMessage
    /\ k.sent = 0 /\ k.results = <<>>

\* C16: a notify call made while the breaker is open (threshold reached, last
\* failure less than timeout ago) fails immediately: it ends in the step that
\* began it, with the circuit-open error, no send attempted, nothing archived.
C16_OpenRejects ==
    [][(Begins(NoTask) /\ WithinCooldown(circuit_breaker)) =>
           /\ Rejected(calls'[NoTask])
           /\ archive' = archive]_vars

\* the second call of a client was rejected, its first having recorded the
\* failure that opened the breaker
C16_Witness ==
    /\ calls[NoTask].made = 2
    /\ Rejected(calls[NoTask])
    /\ circuit_breaker.failures = MaxFailures
    /\ circuit_breaker.last_failure = At(1)
    /\ archive = <<>>

\* C17 (as stated): on a new notifier whose senders always fail, the 5th
\* non-critical notify call in a row is rejected by the open breaker instead
\* of attempting delivery.
C17_Original ==
    calls[NoTask].made = MaxFailures => Rejected(calls[NoTask])

\* C17 (amended): on a new notifier whose senders always fail, each of the
\* first 5 non-critical notify calls in a row attempts delivery (k failures
\* are recorded when call k + 1 begins) and ends with the sender's error after
\* Retries attempts, recording one more failure; the 6th call is rejected
\* without attempting delivery if and only if it is made less than timeout
\* seconds after the 5th failure.
C17_SixthCallRejected ==
    [][/\ Begins(NoTask) =>
           IF calls[NoTask].made < MaxFailures
           THEN /\ circuit_breaker.failures = calls[NoTask].made
                /\ calls'[NoTask].pc = "send"
           ELSE /\ circuit_breaker.failures = MaxFailures
                /\ Rejected(calls'[NoTask]) <=> WithinCooldown(circuit_breaker)
       /\ Ends(NoTask) /\ calls[NoTask].made <= MaxFailures =>
           /\ calls'[NoTask].outcome = "raised"
           /\ calls'[NoTask].error \in SendErrors
           /\ calls'[NoTask].sent = Retries
           /\ circuit_breaker'.failures = calls[NoTask].made]_vars

\* the 6th call was rejected, 59 s after the 5th failure
C17_Witness ==
    /\ calls[NoTask].made = MaxFailures + 1
    /\ Rejected(calls[NoTask])
    /\ circuit_breaker = [failures |-> MaxFailures, last_failure |-> At(1)]
    /\ clock = Timeout

\* C18: on a queue whose tasks call notify while the breaker stays open, no
\* call attempts a send or archives a row, no task completes, records any
\* error but the circuit-open message or is executed more often than its
\* budget allows, and every task of a running queue ends FAILED with that
\* message, its retry budget used up.
C18_RejectedTaskFails ==
    /\ [](/\ archive = <<>>
          /\ \A c \in Callers : calls[c].sent = 0 /\ calls[c].pc = "idle"
          /\ \A t \in TaskIds :
                /\ tasks[t].status # COMPLETED
                /\ tasks[t].error \in {None, CircuitOpenMessage}
                /\ execs[t] <= Max(tasks[t].max_retries, 1))
    /\ \A t \in Ids :
          (running /\ t \in TaskIds) ~>
              (/\ t \in TaskIds
               /\ tasks[t].status = FAILED
               /\ tasks[t].error = CircuitOpenMessage
               /\ tasks[t].retry_count >= tasks[t].max_retries)

\* a task enqueued with the default max_retries was rejected three times and
\* is FAILED with the circuit-open message
C18_Witness ==
    /\ archive = <<>>
    /\ circuit_breaker.failures = MaxFailures
    /\ \E t \in TaskIds :
        /\ tasks[t].status = FAILED
        /\ tasks[t].error = CircuitOpenMessage
        /\ tasks[t].max_retries = DefaultMaxRetries
        /\ tasks[t].retry_count = DefaultMaxRetries

\* C19: when the single channel of a non-critical notify has failed on all of
\* its Retries attempts, the call ends by raising that channel's error, with
\* failure_count one higher than before the exception, last_failure_time
\* set to the current time, and no row archived by the call.
C19_SendFailureRecorded ==
    [][(Ends(NoTask) /\ calls[NoTask].error \in SendErrors) =>
           /\ calls[NoTask].priority # CRITICAL
           /\ calls[NoTask].sent = Retries /\ calls[NoTask].results = <<>>
           /\ calls'[NoTask].outcome = "raised"
           /\ calls'[NoTask].error = calls[NoTask].error
           /\ circuit_breaker'.failures = circuit_breaker.failures + 1
           /\ circuit_breaker'.last_failure = At(clock)
           /\ archive' = archive /\ Len(archive) = calls[NoTask].base]_vars

\* a first call failed on its push channel, at time 60, on a breaker that had
\* recorded two failures at time 0
C19_Witness ==
    /\ calls[NoTask].made = 1
    /\ calls[NoTask].pc = "idle" /\ calls[NoTask].outcome = "raised"
    /\ calls[NoTask].error = SendError("Push")
    /\ circuit_breaker = [failures |-> 3, last_failure |-> At(Timeout)]
    /\ archive = <<>>

\* ','.join of up to three strings, written out
CommaJoined(s) ==
    CASE Len(s) = 0 -> ""
      [] Len(s) = 1 -> s[1]
      [] Len(s) = 2 -> s[1] \o "," \o s[2]
      [] Len(s) = 3 -> s[1] \o "," \o s[2] \o "," \o s[3]

\* the channels on which the call with locals k delivered
Delivered(k) == [i \in 1..Len(k.results) |-> k.results[i].channel]

\* C20: a notify call that returns normally has archived exactly one row,
\* whose channels field is the comma-joined list of the channels that
\* succeeded; between its circuit check and its return it does not touch the
\* breaker, it records success only once the row is archived, and so it
\* returns with failure_count = 0 (and last_failure_time None).
C20_ReturnArchivedOnce ==
    [][/\ (Ends(NoTask) /\ calls'[NoTask].outcome = "returned") =>
           /\ Len(archive) = calls[NoTask].base + 1
           /\ archive' = archive
           /\ archive[Len(archive)].channels = CommaJoined(Delivered(calls[NoTask]))
           /\ circuit_breaker' = [failures |-> 0, last_failure |-> Never]
       /\ (calls[NoTask].pc # "idle" /\ ~Ends(NoTask)) =>
           /\ circuit_breaker' = circuit_breaker
           /\ Len(archive') = calls[NoTask].base
                                + (IF calls'[NoTask].pc = "success" THEN 1 ELSE 0)]_vars

\* a second, CRITICAL call returned having delivered by email and SMS (push
\* failed), after a first call that archived nothing
C20_Witness ==
    /\ calls[NoTask].made = 2 /\ calls[NoTask].base = 0
    /\ calls[NoTask].pc = "idle" /\ calls[NoTask].outcome = "returned"
    /\ calls[NoTask].sent = 5
    /\ archive = <<[priority |-> CRITICAL, channels |-> "Email,SMS"]>>
    /\ circuit_breaker.failures = 0

\* ------------------------------------------------------- notify in a task
\* a worker executes task c
Executing(c) == \E w \in Live : w.task = c /\ w.pc = "exec"
\* a thread worker is between the exception of task c and its retry decision
Excepting(c) == \E w \in Live : w.task = c /\ w.pc = "exc"

\* C21: in a notify call whose sends all succeeded, a failed archiving
\* commits no row and is raised again; the call ends by raising the archiving
\* error once record_failure has run (the count it found, plus one, written
\* to the breaker and stamped now; nothing reset); the worker that runs the
\* call records the error and counts a retry, and the status it then gives
\* the task is RETRYING or FAILED, not COMPLETED.
C21_ArchiveFailureFailsTask ==
    [][\A c \in Ids :
        /\ (calls[c].pc = "archive" /\ calls'[c] # calls[c] /\ archive' = archive) =>
               /\ calls[c].results # <<>>
               /\ calls'[c] = [calls[c] EXCEPT !.pc = "failure", !.error = ArchiveError]
        /\ (Ends(c) /\ calls[c].error = ArchiveError) =>
               /\ calls'[c].outcome = "raised"
               /\ calls'[c].error = ArchiveError
               /\ circuit_breaker'.failures =
                    (IF design = "async" THEN circuit_breaker.failures
                     ELSE calls[c].loaded) + 1
               /\ circuit_breaker'.failures > 0
               /\ circuit_breaker'.last_failure = At(clock)
               /\ archive' = archive
        /\ (calls[c].outcome = "raised" /\ calls[c].error = ArchiveError
                /\ calls'[c] # calls[c]) =>
               /\ Executing(c)
               /\ tasks'[c].error = ArchiveError
               /\ tasks'[c].retry_count = tasks[c].retry_count + 1
               /\ tasks'[c].result = tasks[c].result
               /\ IF design = "async"
                  THEN tasks'[c].status \in {RETRYING, FAILED}
                  ELSE tasks'[c].status = RUNNING /\ Excepting(c)'
        /\ (Excepting(c) /\ tasks'[c] # tasks[c]) =>
               tasks'[c].status \in {RETRYING, FAILED}]_vars

\* the archiving failed in both executions of one task, which is FAILED, and
\* in the first execution of another, which is RETRYING; no row was archived
\* and the breaker counts the three failures
C21_Witness ==
    /\ archive = <<>>
    /\ circuit_breaker.failures = 3
    /\ \E t, u \in TaskIds :
        /\ tasks[t].status = FAILED /\ tasks[t].error = ArchiveError
        /\ tasks[t].retry_count = 2 /\ tasks[t].result = None
        /\ tasks[u].status = RETRYING /\ tasks[u].error = ArchiveError
        /\ tasks[u].retry_count = 1

\* ------------------------------------------------------- channel policy
\* the emergency types of CRITICAL priority
Critical == {"SECURITY", "HEALTH"}
\* the channels of a CRITICAL notification, in the order they are tried
AllChannels == <<"Email", "Push", "SMS">>
\* s lists some of the channels, each once, in the order of AllChannels
InChannelOrder(s) ==
    \E pos \in [1..Len(s) -> 1..Len(AllChannels)] :
        /\ \A i \in 1..Len(s) : s[i] = AllChannels[pos[i]]
        /\ \A i, j \in 1..Len(s) : i < j => pos[i] < pos[j]

\* C22: a CRITICAL notify call that passed the circuit check is to send by
\* email, by push and, if and only if user['phone'] is a non-empty string, by
\* SMS, in this order. Every attempt is made on the first channel still to
\* do; a success adds that channel to the results, a failure adds nothing;
\* whatever the outcome the call goes on with the same channel (a retry) or
\* with the next one, to the archiving after the last, and never ends on a
\* failed channel. The results list the channels that succeeded, in order.
C22_CriticalAllChannels ==
    [][/\ \A et \in Critical, user \in Users :
            (Notify(NoTask, et, user, MaxCalls) /\ calls'[NoTask].pc # "idle") =>
                /\ calls'[NoTask].priority = CRITICAL
                /\ calls'[NoTask].plan =
                        IF user.phone \in {None, ""} THEN <<"Email", "Push">>
                        ELSE <<"Email", "Push", "SMS">>
       /\ \A ok \in BOOLEAN :
            (SendAttempt(NoTask, ok) /\ calls[NoTask].priority = CRITICAL) =>
                LET k == calls[NoTask]
                    k2 == calls'[NoTask]
                IN  /\ k2.sent = k.sent + 1
                    /\ k2.results = IF ok THEN Append(k.results,
                                            [status |-> "success", channel |-> Head(k.plan)])
                                     ELSE k.results
                    /\ \/ ~ok /\ k2.plan = k.plan /\ k2.pc = "send"
                          /\ k2.attempt = k.attempt + 1
                       \/ /\ k2.plan = Tail(k.plan) /\ k2.attempt = 0
                          /\ k2.pc = IF Len(k.plan) = 1 THEN "archive" ELSE "send"
                    /\ InChannelOrder(Delivered(k2) \o k2.plan)
       /\ (calls[NoTask].priority = CRITICAL /\ calls[NoTask].pc # "failure"
                /\ calls'[NoTask].pc = "failure") =>
            calls[NoTask].pc = "archive"]_vars

\* a CRITICAL call for a user with a phone delivered on the three channels
\* at the first attempt and is to archive them
C22_Witness ==
    /\ calls[NoTask].priority = CRITICAL /\ calls[NoTask].pc = "archive"
    /\ calls[NoTask].sent = 3
    /\ Delivered(calls[NoTask]) = <<"Email", "Push", "SMS">>

\* the call with locals k has a priority, and it is not CRITICAL
Ordinary(k) == k.priority \in {"HIGH", "MEDIUM", "LOW"}

\* C23: a notify call of an emergency type that is not CRITICAL, once past
\* the circuit check, is to send on one channel: email if
\* user['prefers_email'], push if not. That channel stays its only one: each
\* attempt is made on it, the call ends with its error when it failed for
\* good, and a call that goes on to archive and return has exactly that
\* channel in its results. SMS is never among its channels.
C23_OrdinaryOneChannel ==
    [][/\ \A et \in EmergencyType \ Critical, user \in Users :
            (Notify(NoTask, et, user, MaxCalls) /\ calls'[NoTask].pc # "idle") =>
                /\ Ordinary(calls'[NoTask])
                /\ calls'[NoTask].results = <<>>
                /\ calls'[NoTask].plan =
                        IF user.prefers_email THEN <<"Email">> ELSE <<"Push">>
       /\ (Ordinary(calls[NoTask]) /\ calls[NoTask].pc # "idle") =>
            LET k == calls[NoTask]
                k2 == calls'[NoTask]
                channel == IF k.plan # <<>> THEN k.plan ELSE Delivered(k)
            IN  /\ channel \in {<<"Email">>, <<"Push">>}
                /\ Delivered(k) \o k.plan = channel
                /\ k.pc = "send" => k.plan # <<>>
                /\ k.pc \in {"archive", "success"} => k.plan = <<>>
                /\ k2.sent # k.sent => k.pc = "send" /\ k.sent < Retries
                /\ k2.pc = "failure" =>
                        \/ k2.error = ArchiveError /\ Delivered(k2) = channel
                        \/ /\ k2.error = SendError(channel[1])
                           /\ k2.results = <<>> /\ k2.sent = Retries
                /\ k2.pc \in {"archive", "success"} => Delivered(k2) = channel
                /\ (k2.pc = "idle" /\ k2.outcome = "returned") =>
                        /\ k2.results = <<[status |-> "success", channel |-> channel[1]]>>
                        /\ archive[Len(archive)].channels = channel[1]]_vars

\* an INFRASTRUCTURE call for a user who does not prefer email returned with
\* push as its only result, delivered at the third attempt
C23_Witness ==
    /\ calls[NoTask].pc = "idle" /\ calls[NoTask].outcome = "returned"
    /\ calls[NoTask].priority = "MEDIUM"
    /\ calls[NoTask].sent = Retries
    /\ Delivered(calls[NoTask]) = <<"Push">>
    /\ archive = <<[priority |-> "MEDIUM", channels |-> "Push"]>>

\* ---------------------------------------------------- priority resolver
\* the priority of each emergency type
PriorityTable ==
    [et \in EmergencyType |->
        CASE et = "SECURITY" -> "CRITICAL"
          [] et = "HEALTH" -> "CRITICAL"
          [] et = "WEATHER" -> "HIGH"
          [] et = "INFRASTRUCTURE" -> "MEDIUM"
          [] et = "ACADEMIC" -> "LOW"]

\* the priority of the emergency_type string a caller passes
TagPriority(tag) ==
    CASE tag = "securite" -> "CRITICAL"
      [] tag = "sante" -> "CRITICAL"
      [] tag = "meteo" -> "HIGH"
      [] tag = "infrastructure" -> "MEDIUM"
      [] OTHER -> "LOW"

\* C24: get_priority returns CRITICAL for SECURITY and HEALTH, HIGH for
\* WEATHER, MEDIUM for INFRASTRUCTURE, LOW for ACADEMIC and for any argument
\* that is no emergency type; a notify call made by send_notification_sync
\* has the priority of the emergency type whose value the string is, LOW if
\* it is the value of none.
C24_PriorityResolved ==
    /\ [](Called("get_priority") =>
            LET a == observed.value[1]
            IN  observed.value[2] =
                    IF a \in EmergencyType THEN PriorityTable[a] ELSE "LOW")
    /\ [][\A tag \in Tags :
            (SendNotificationSync(NoTask, tag, 1)
                /\ calls'[NoTask].pc # "idle") =>
                    calls'[NoTask].priority = TagPriority(tag)]_vars

\* get_priority was called with a string that is no emergency type, after a
\* send_notification_sync call with the string of SECURITY that delivered on
\* three channels
C24_Witness ==
    /\ Called("get_priority")
    /\ observed.value = <<"autre", "LOW">>
    /\ archive = <<[priority |-> "CRITICAL", channels |-> "Email,Push,SMS"]>>

\* ------------------------------------------------------- channel retries
\* C25: a channel send makes at most 3 attempts, one right after the other
\* (the call does nothing else in between). The first attempt that succeeds
\* ends it: its result is taken and the channel is not tried again. A failed
\* first or second attempt is followed by another on the same channel,
\* nothing raised; only the third failure in a row is raised to the caller
\* (notify, which ends with that error, or send_all_channels, which goes on).
C25_ThreeAttempts ==
    /\ [](/\ calls[NoTask].attempt \in 0..2
          /\ calls[NoTask].sent <= 3 * (IF calls[NoTask].priority = CRITICAL
                                        THEN Len(AllChannels) ELSE 1)
          /\ calls[NoTask].error \in SendErrors =>
                calls[NoTask].sent = 3 /\ calls[NoTask].results = <<>>)
    /\ [][\A ok \in BOOLEAN : SendAttempt(NoTask, ok) =>
            LET k == calls[NoTask]
                k2 == calls'[NoTask]
                ch == Head(k.plan)
            IN  /\ k2.sent = k.sent + 1
                /\ ok => /\ k2.results = Append(k.results, SendResult(ch))
                         /\ k2.plan = Tail(k.plan) /\ k2.attempt = 0
                         /\ k2.error = None
                /\ (~ok /\ k.attempt < 2) =>
                         /\ k2 = [k EXCEPT !.sent = @ + 1, !.attempt = @ + 1]
                         /\ k2.pc = "send" /\ k2.error = None
                /\ (~ok /\ k.attempt = 2) =>
                         /\ k2.results = k.results
                         /\ \/ k2.pc = "failure" /\ k2.error = SendError(ch)
                            \/ /\ k.priority = CRITICAL /\ k2.error = None
                               /\ k2.plan = Tail(k.plan) /\ k2.attempt = 0]_vars

\* in a CRITICAL call the email failed three times and the push was
\* delivered at its second attempt; the SMS is still to send
C25_Witness ==
    /\ calls[NoTask].pc = "send" /\ calls[NoTask].plan = <<"SMS">>
    /\ calls[NoTask].sent = 5 /\ calls[NoTask].attempt = 0
    /\ Delivered(calls[NoTask]) = <<"Push">>

\* ---------------------------------------------------------------- get_task
\* C26: get_task(id) returns None if id is not in the registry, else the
\* task registered under id; it changes no task, nothing of the queue and
\* nothing of the notifier; called again for the same id before any worker
\* ran, it returns the same task contents.
C26_GetTaskReadOnly ==
    [][\A id \in Ids : GetTask(id) =>
        /\ observed'.value[1] = id
        /\ observed'.value[2] = IF id \in TaskIds THEN <<tasks[id]>> ELSE <<>>
        /\ tasks' = tasks /\ queue' = queue /\ workers' = workers
        /\ running' = running /\ execs' = execs
        /\ circuit_breaker' = circuit_breaker /\ archive' = archive
        /\ (Called("get_task") /\ observed.value[1] = id) =>
                observed'.value[2] = observed.value[2]]_vars

\* get_task returned a task that failed once and is executed again, and the
\* other id is not registered
C26_Witness ==
    /\ Called("get_task")
    /\ Len(observed.value[2]) = 1
    /\ observed.value[2][1].status = RUNNING
    /\ observed.value[2][1].retry_count = 1
    /\ observed.value[2][1] = tasks[observed.value[1]]
    /\ Cardinality(TaskIds) = 1

\* ------------------------------------------------------- the queue lock
\* Each step of a thread worker is either one `with self.lock` block or a
\* statement outside any: between two steps no worker holds the lock, so an
\* observer that takes it can see every reachable state.

\* C27: in the ThreadPoolQueue no task is seen with its result set while its
\* status is still RUNNING (every write to a task being made under the lock,
\* result and COMPLETED are written in one critical section).
C27_ResultSetUnderLock ==
    design = "thread" =>
        \A t \in TaskIds : tasks[t].status = RUNNING => tasks[t].result = None

\* ------------------------------------------------------ double execution
\* the number of workers that hold task t
Holders(t) ==
    LET H == {w \in Live : w.task = t}
    IN  IF H = {} THEN 0
        ELSE IF Cardinality(H) = 1 THEN CopiesIn(CHOOSE w \in H : TRUE, workers)
        ELSE 2
\* the number of times task t is in the ready queue
Occurrences(t) ==
    Cardinality({i \in 1..Len(queue) :
                    (IF design = "async" THEN queue[i][2] ELSE queue[i]) = t})

\* C29: in every reachable state of either queue, a task id is held by at
\* most one worker, is at most once in the ready queue, and is not in the
\* ready queue while a worker executes it.
C29_NoDoubleExecution ==
    \A t \in Ids :
        /\ Holders(t) <= 1
        /\ Occurrences(t) <= 1
        /\ Occurrences(t) > 0 => ~Executing(t)

\* after a stop and a second start, a task that failed once waits in the ready
\* queue for its retry while a worker executes another task
C29_Witness ==
    /\ running /\ NLive > max_workers
    /\ \E t, u \in TaskIds :
        /\ Occurrences(t) = 1 /\ tasks[t].status = RETRYING /\ Holders(t) = 0
        /\ Executing(u) /\ Holders(u) = 1 /\ Occurrences(u) = 0

\* ------------------------------------------------------ a shared notifier
\* the tasks whose notify call has ended with an exception
FailedCalls ==
    {t \in TaskIds : tasks[t].retry_count > 0 \/ calls[t].outcome = "raised"}

\* C28: on a new notifier, when the failing notify calls of k workers have
\* ended, no call having succeeded, failure_count is k, however the calls
\* were interleaved.
C28_NoLostUpdate ==
    (\A c \in Callers : calls[c].pc = "idle") =>
        circuit_breaker.failures = Cardinality(FailedCalls)

\* C30: with workers calling notify side by side, failure_count never
\* exceeds max_failures.
C30_FailuresWithinThreshold == circuit_breaker.failures <= MaxFailures

\* ------------------------------------------------------ the retry priority
\* the tasks that wait in the ready queue after a failure
Requeued == {t \in Queued \cap TaskIds : tasks[t].status = RETRYING}
\* the worker that ran task t records, in this step, a failure with budget left
FailsWithBudget(t) == tasks[t].status = RUNNING /\ tasks'[t].status = RETRYING

\* C31: in the AsyncQueue a task that fails with retries remaining is put
\* back under its own id: the registry keeps its entries, the ready queue
\* gains one item, for that id, under a key below that of priority 0. So no
\* task waiting under priority 0 is dequeued while a task that was put back
\* waits.
C31_RetriedBeforeDefault ==
    [][design = "async" =>
         \A t \in TaskIds :
             /\ FailsWithBudget(t) =>
                    /\ DOMAIN tasks' = DOMAIN tasks
                    /\ Len(queue') = Len(queue) + 1
                    /\ Occurrences(t) = 0 /\ Occurrences(t)' = 1
                    /\ ItemKey(t)' < EnqueueKey(0)
                    /\ \A u \in TaskIds \ {t} : tasks'[u] = tasks[u]
             /\ (Dequeued(t) /\ tasks[t].status = PENDING /\ tasks[t].priority = 0) =>
                    Requeued = {}]_vars

\* a task that failed once was taken again and is executed for the second
\* time while a priority 0 task, enqueued before it under a lesser id, has
\* not been started
C31_Witness ==
    /\ design = "async"
    /\ \E t, u \in TaskIds :
        /\ tasks[t].status = RUNNING /\ tasks[t].retry_count = 1 /\ execs[t] = 2
        /\ tasks[u].priority = 0 /\ u \in NotStarted
        /\ seq[u] < seq[t] /\ u < t

\* C32: in the AsyncQueue the priority under which a failed task is put back
\* is at least the priority it was enqueued with, and a task that was put
\* back is not overtaken by a not-yet-started task of lower enqueue priority.
C32_RetryKeepsPriority ==
    [][design = "async" =>
         \A t \in TaskIds :
             /\ FailsWithBudget(t) => -(ItemKey(t)') >= tasks[t].priority
             /\ (Dequeued(t) /\ tasks[t].status = PENDING) =>
                    \A u \in Requeued : tasks[u].priority <= tasks[t].priority]_vars

\* ------------------------------------------------- workers outlive failures
\* the work function worker w called raises, in this step, an Exception
Raises(w) ==
    /\ w.pc = "exec"
    /\ tasks'[w.task].retry_count = tasks[w.task].retry_count + 1
\* one worker in local state w has left it in this step
Leaves(w) == CopiesIn(w, workers') < CopiesIn(w, workers)
\* the position of a worker loop that waits for the next ready item
Waiting == Worker("wait", NoTask, FALSE)

HeadGone == Len(queue) > 0 /\ Head(queue)[2] \notin TaskIds

Returned(k) == k.pc = "idle" /\ k.outcome = "returned"

\* C35: a notify call that has returned normally has at least one successful
\* channel outcome in its results, whatever the emergency type and whichever
\* sends failed.
C35_ReturnedDelivered ==
    Returned(calls[NoTask]) => Len(SuccessChannels(calls[NoTask].results)) >= 1

\* C36: a notify call about SECURITY or HEALTH for a user with an email and a
\* phone number that has returned has priority CRITICAL and at least two
\* channel outcomes in its results, whatever the sends did.
C36_CriticalTwoOutcomes ==
    Returned(calls[NoTask]) =>
        /\ calls[NoTask].priority = CRITICAL
        /\ Len(calls[NoTask].results) >= 2

\* ------------------------------------------------------------- init_queues
\* C37: once the queue was started (running is True; by init_queues in
\* particular) a task enqueued on it is eventually dequeued and its work
\* function called.
C37_ServiceableAfterInit ==
    \A t \in Ids : (running /\ t \in TaskIds) ~> (t \in TaskIds /\ execs[t] >= 1)

\* ------------------------------------------------------- rejected calls
\* C38: a notify call rejected because the circuit is open leaves the breaker
\* as it found it: failure_count and last_failure_time keep their values (and
\* nothing is sent or archived), so that, calls being rejected or not in
\* between, the breaker is open at the same instants.
C38_RejectedLeavesBreaker ==
    [][(Begins(NoTask) /\ Rejected(calls'[NoTask])) =>
           /\ IsOpen(circuit_breaker)
           /\ circuit_breaker'.failures = circuit_breaker.failures
           /\ circuit_breaker'.last_failure = circuit_breaker.last_failure
           /\ archive' = archive]_vars

\* the third call of a client was rejected a day and a second after the
\* failures the breaker had recorded in the second it was built, which it
\* still holds
C38_Witness ==
    /\ calls[NoTask].made = 3 /\ Rejected(calls[NoTask])
    /\ circuit_breaker = [failures |-> MaxFailures + 1, last_failure |-> At(0)]
    /\ clock = SecondsPerDay + 1

\* ------------------------------------------------------------- time stamps
\* C39: in every reachable state of either queue, completed_at of a task is
\* set if and only if its status is COMPLETED or FAILED, and started_at is
\* set if and only if its status is not PENDING.
C39_StampsMatchStatus ==
    \A t \in TaskIds :
        /\ tasks[t].completed_at <=> tasks[t].status \in {COMPLETED, FAILED}
        /\ tasks[t].started_at <=> tasks[t].status # PENDING

\* one task completed at its second execution while the other, started and
\* failed once, waits for its retry with no completion time
C39_Witness ==
    \E t, u \in TaskIds :
        /\ tasks[t].status = COMPLETED /\ tasks[t].retry_count = 1
        /\ tasks[t].started_at /\ tasks[t].completed_at
        /\ tasks[u].status = RETRYING /\ u \in Queued
        /\ tasks[u].started_at /\ ~tasks[u].completed_at

\* ------------------------------------------------------------ the route
\* C40: a valid POST to /send-notification that ended with the notification
\* sent (user found, all fields present, notify returned, commit done) has
\* added exactly one row to the persisted Notification records.
C40_OneRecordPerPost ==
    calls[NoTask].outcome = "sent" => Len(archive) = calls[NoTask].base + 1

====
